---- MODULE Spec2Model ----
(***************************************************************************)
(* The API proxy container of the ALB topology                             *)
(* (source/infrastructure/lib/components/alb/alb-ui-api.ts, the Express    *)
(* application from line 347 on), as a state machine over inbound          *)
(* requests.  Strings the code inspects (request URLs, API_ENDPOINT) are   *)
(* sequences of tokens, so that includes/endsWith/split/regular-expression *)
(* tests are computed on them as the code computes them.  Library calls    *)
(* follow Express 4 / body-parser / serve-static / axios behaviour.        *)
(***************************************************************************)
EXTENDS Integers, Sequences, FiniteSets, TLC

VARIABLES apiEndpoint, publicDir, deploymentMode, pc, req, res, out, calls, ran, answer, server, sched, edge

vars == <<apiEndpoint, publicDir, deploymentMode, pc, req, res, out, calls, ran, answer, server, sched, edge>>

Absent == "<absent>"

----------------------------------------------------------------------------
(* String operations on token sequences (JavaScript String methods).        *)

StartsWith(s, p) == Len(p) <= Len(s) /\ SubSeq(s, 1, Len(p)) = p

EndsWith(s, suf) == Len(suf) <= Len(s) /\ SubSeq(s, Len(s) - Len(suf) + 1, Len(s)) = suf

Includes(s, sub) == \E i \in 1..(Len(s) - Len(sub) + 1) : SubSeq(s, i, i + Len(sub) - 1) = sub

IndexOf(s, t) == IF \E i \in 1..Len(s) : s[i] = t THEN CHOOSE i \in 1..Len(s) : s[i] = t /\ \A j \in 1..(i - 1) : s[j] # t ELSE 0

Slice(s, from) == SubSeq(s, from, Len(s))

RECURSIVE Split(_, _)
Split(s, sep) == IF IndexOf(s, sep) = 0 THEN <<s>> ELSE <<SubSeq(s, 1, IndexOf(s, sep) - 1)>> \o Split(Slice(s, IndexOf(s, sep) + 1), sep)

RECURSIVE Join(_, _)
Join(parts, sep) == IF Len(parts) = 0 THEN <<>> ELSE IF Len(parts) = 1 THEN parts[1] ELSE parts[1] \o <<sep>> \o Join(Tail(parts), sep)

----------------------------------------------------------------------------
(* Request URLs: req.path is the part before '?', req.url keeps the query.  *)

PathOf(url) == IF IndexOf(url, "?") = 0 THEN url ELSE SubSeq(url, 1, IndexOf(url, "?") - 1)

QueryOf(url) == IF IndexOf(url, "?") = 0 THEN <<>> ELSE Slice(url, IndexOf(url, "?"))

ApiPrefix == <<"/", "api">>

\* app.use('/api', ...): the mount path matches whole path segments only.
UnderMount(path) == StartsWith(path, ApiPrefix) /\ (Len(path) = 2 \/ path[3] = "/")

\* Inside a mounted handler Express strips the mount path from req.url and
\* keeps a leading slash.
MountedUrl(url) == IF Len(PathOf(url)) = 2 THEN <<"/">> \o Slice(url, 3) ELSE Slice(url, 3)

\* app.get(path, ...): exact path, optional trailing slash (non-strict routing).
RouteMatch(path, pattern) == path = pattern \/ path = pattern \o <<"/">>

----------------------------------------------------------------------------
(* Deployment-time inputs.                                                  *)

\* process.env.API_ENDPOINT: unset/empty, a bare domain, a domain with a
\* stage (with and without the trailing slash restApi.url carries), and a
\* value with an empty domain part.
Endpoints == {<<>>, <<"d">>, <<"d", "/">>, <<"d", "/", "prod">>, <<"d", "/", "prod", "/">>, <<"/", "prod">>}

pIndex == <<"/", "index", ".", "html">>

pAssets == <<"/", "assets">>

pAppJs == <<"/", "assets", "/", "app", ".", "js">>

pAppMap == <<"/", "assets", "/", "app", ".", "js", ".", "map">>

pHealth == <<"/", "health">>

pDebug == <<"/", "debug">>

pTest == <<"/", "test">>

pDashboard == <<"/", "dashboard">>

pApiX == <<"/", "api", "/", "x">>

pApiMap == <<"/", "api", "/", "x", ".", "js", ".", "map">>

pApiTest == <<"/", "api", "/", "test">>

pAuthHelper == <<"/", "api", "/", "auth-helper">>

pAuthDir == <<"/", "api", "/", "auth">>

pPortalLoad == <<"/", "api", "/", "auth", "/", "portalLoad", ".", "js">>

pSearchParam == <<"/", "api", "/", "auth", "/", "searchParam", ".", "js">>

pDevLogin == <<"/", "api", "/", "auth", "/", "dev-login">>

pAuthScript == <<"/", "api", "/", "auth", "/", "script", ".", "js">>

\* The container's public directory after the copy at deployment time: the
\* frontend build (index.html, assets/), plus the api/auth directory the
\* constructor creates; empty when the copy failed.  <<>> is public/ itself.
BuiltDirs == {<<>>, pAssets, ApiPrefix, pAuthDir}

PublicDirs == { [files |-> {}, dirs |-> {}], [files |-> {pIndex, pAppJs}, dirs |-> BuiltDirs], [files |-> {pIndex, pAppJs, pAppMap}, dirs |-> BuiltDirs], [files |-> {pIndex, pAppJs, pPortalLoad, pApiX}, dirs |-> BuiltDirs], [files |-> {pAppJs, pHealth}, dirs |-> BuiltDirs] }

\* isDevMode(scope): whether the deployment is marked as a development one.
DeploymentModes == {"development", "production"}

\* The container environment always carries NODE_ENV = "development".
NODE_ENV == "development"

----------------------------------------------------------------------------
(* Inbound requests.                                                        *)

Methods == {"GET", "POST", "OPTIONS"}

Paths == {<<"/">>, pHealth, pDebug, pTest, pDashboard, pAssets, pAppJs, pAppMap, pApiX, pApiMap, pApiTest, pAuthHelper, pPortalLoad, pSearchParam, pDevLogin, pAuthScript}

Queries == {<<>>, <<"?", "v", "=", "1">>, <<"?", "r", "=", "/", "auth", "/", "x", ".", "js">>}

CallerHeaderNames == {"accept", "origin", "referer", "sec-fetch-site"}

CallerValue(h) == CASE h = "accept" -> "text/html" [] h = "origin" -> "https://app.example" [] h = "referer" -> "https://app.example/page" [] h = "sec-fetch-site" -> "same-origin"

InHeaderNames == CallerHeaderNames \cup {"host", "content-type", "content-length"}

HostValue == "alb.example"

NoBody == [enc |-> "none", valid |-> TRUE, username |-> Absent, password |-> Absent]

MalformedJson == [enc |-> "json", valid |-> FALSE, username |-> Absent, password |-> Absent]

TextBody == [enc |-> "text", valid |-> TRUE, username |-> Absent, password |-> Absent]

Usernames == {"devuser", "DevUser", Absent}

Passwords == {"devpassword", "wrong", Absent}

CredentialBodies == [enc : {"json", "form"}, valid : {TRUE}, username : Usernames, password : Passwords]

ContentTypeOf(body) == CASE body.enc = "none" -> Absent [] body.enc = "json" -> "application/json" [] body.enc = "form" -> "application/x-www-form-urlencoded" [] body.enc = "text" -> "text/plain"

\* Node lower-cases inbound header names; present is the set of optional
\* headers the caller sent.
InHeaders(present, body) == [h \in InHeaderNames |-> CASE h = "host" -> HostValue [] h = "content-type" -> ContentTypeOf(body) [] h = "content-length" -> (IF body.enc = "none" THEN Absent ELSE "n") [] OTHER -> (IF h \in present THEN CallerValue(h) ELSE Absent)]

Request(m, p, qs, present, body) == [method |-> m, url |-> p \o qs, headers |-> InHeaders(present, body), body |-> body]

\* Every method on every path and query, with no body or an unparsable one.
RoutingRequests == {Request(m, p, qs, {}, b) : m \in Methods, p \in Paths, qs \in Queries, b \in {NoBody, MalformedJson}}

\* The credential check, over every credential pair in both parsed encodings.
LoginRequests == {Request(m, pDevLogin, <<>>, {}, b) : m \in {"GET", "POST"}, b \in CredentialBodies \cup {TextBody}}

\* Header rewriting, over every combination of the optional caller headers.
HeaderRequests == {Request("GET", p, qs, present, NoBody) : p \in {pApiX, pAuthScript}, qs \in Queries, present \in SUBSET CallerHeaderNames}

\* Body forwarding: a JSON, a form-encoded and a plain-text body posted to a
\* forwarded path.
BodyRequests == {Request("POST", pApiX, <<>>, {}, b) : b \in {TextBody, [enc |-> "json", valid |-> TRUE, username |-> "devuser", password |-> "wrong"], [enc |-> "form", valid |-> TRUE, username |-> "devuser", password |-> "wrong"]}}

Requests == RoutingRequests \cup LoginRequests \cup HeaderRequests \cup BodyRequests

----------------------------------------------------------------------------
(* The response object (http.ServerResponse as Express extends it).         *)

ResHeaderNames == {"content-security-policy", "x-content-type-options", "x-frame-options", "x-xss-protection", "access-control-allow-origin", "access-control-allow-methods", "access-control-allow-headers", "content-type", "cache-control", "location"}

\* A header value that res.setHeader rejects (ERR_INVALID_CHAR).
InvalidHeaderValue == "SAMEORIGIN<control character>"

SetHeaderThrows(value) == value = InvalidHeaderValue

\* A Content-Type value that content-type.parse rejects.
BadMediaType == "garbage"

EmptyPayload == [tag |-> "empty"]

\* A fresh response: status 200, no headers, nothing sent.  late counts the
\* writes (status, header or body) attempted after the response was sent.
NewRes == [sent |-> FALSE, status |-> 200, hdr |-> [h \in ResHeaderNames |-> Absent], body |-> EmptyPayload, late |-> 0]

\* res.status(code)
SetStatus(r, code) == IF r.sent THEN [r EXCEPT !.late = @ + 1] ELSE [r EXCEPT !.status = code]

\* res.setHeader(name, value): throws ERR_HTTP_HEADERS_SENT once sent.
SetHeader(r, name, value) == IF r.sent THEN [r EXCEPT !.late = @ + 1] ELSE [r EXCEPT !.hdr[name] = value]

\* res.end(): the one write of the response to the socket.
End(r, payload) == IF r.sent THEN [r EXCEPT !.late = @ + 1] ELSE [r EXCEPT !.sent = TRUE, !.body = payload]

\* res.send(string) runs the Content-Type header through content-type.parse
\* to add the charset, and so throws on an unparsable value before writing.
SendThrows(r) == r.hdr["content-type"] = BadMediaType

\* res.send(text): Content-Type defaults to text/html.
Send(r, payload) == End(IF r.hdr["content-type"] = Absent THEN SetHeader(r, "content-type", "text/html") ELSE r, payload)

\* res.json(obj): Content-Type defaults to application/json.
Json(r, payload) == End(IF r.hdr["content-type"] = Absent THEN SetHeader(r, "content-type", "application/json") ELSE r, payload)

----------------------------------------------------------------------------
(* The middleware chain.  A chain state carries the response, whether the   *)
(* last handler ended the chain (did not call next), a pending error,       *)
(* req.body, the outbound call a handler is awaiting, and the handlers run. *)

EmptyObject == [username |-> Absent, password |-> Absent]

NoCall == [method |-> Absent]

NewChain == [res |-> NewRes, done |-> FALSE, err |-> FALSE, body |-> EmptyObject, await |-> FALSE, out |-> NoCall, ran |-> {}]

Responded(st, name, r) == [st EXCEPT !.res = r, !.done = TRUE, !.ran = @ \cup {name}]

\* app.use(express.json()): parses a JSON body into req.body, passes a parse
\* failure to next(err), and otherwise leaves req.body = {}.
ExpressJson(q, st) == IF q.body.enc # "json" THEN st ELSE IF q.body.valid THEN [st EXCEPT !.body = [username |-> q.body.username, password |-> q.body.password]] ELSE [st EXCEPT !.err = TRUE]

\* app.use(express.urlencoded({ extended: true }))
ExpressUrlencoded(q, st) == IF q.body.enc # "form" THEN st ELSE [st EXCEPT !.body = [username |-> q.body.username, password |-> q.body.password]]

CspValue == "default-src 'self' https://*.amazonaws.com; ..."

WithSecurityHeaders(r) == SetHeader(SetHeader(SetHeader(SetHeader(SetHeader(SetHeader(SetHeader(r, "content-security-policy", CspValue), "x-content-type-options", "nosniff"), "x-frame-options", "DENY"), "x-xss-protection", "1; mode=block"), "access-control-allow-origin", "*"), "access-control-allow-methods", "GET, POST, PUT, DELETE, OPTIONS"), "access-control-allow-headers", "Origin, X-Requested-With, Content-Type, Accept, Authorization")

\* Variant: the preflight branch ends the response but still calls next().
SecurityHeadersFallThrough(q, st) == IF q.method = "OPTIONS" THEN [st EXCEPT !.res = End(SetStatus(WithSecurityHeaders(st.res), 200), EmptyPayload), !.ran = @ \cup {"preflight"}] ELSE [st EXCEPT !.res = WithSecurityHeaders(st.res)]

\* Variant: no preflight branch at all.
SecurityHeadersNoPreflight(q, st) == [st EXCEPT !.res = WithSecurityHeaders(st.res)]

\* Security headers and CORS middleware; a preflight ends here.
SecurityHeaders(q, st) == IF q.method = "OPTIONS" THEN Responded(st, "preflight", End(SetStatus(WithSecurityHeaders(st.res), 200), EmptyPayload)) ELSE [st EXCEPT !.res = WithSecurityHeaders(st.res)]

FilePayload(path) == [tag |-> "file", path |-> path]

MimeOf(path) == IF EndsWith(path, <<".", "html">>) THEN "text/html" ELSE IF EndsWith(path, <<".", "js">>) THEN "application/javascript" ELSE IF EndsWith(path, <<".", "map">>) THEN "application/json" ELSE "application/octet-stream"

\* A file served by express.static, cached for a day.
ServeFile(r, path) == End(SetHeader(SetHeader(r, "cache-control", "public, max-age=86400"), "content-type", MimeOf(path)), FilePayload(path))

\* res.sendFile(path): the file with send's default Cache-Control.
SendFile(r, path) == End(SetHeader(SetHeader(r, "cache-control", "public, max-age=0"), "content-type", MimeOf(path)), FilePayload(path))

ExpressStaticOutsideApi(q, st) == LET p == PathOf(q.url) IN IF q.method \notin {"GET", "HEAD"} \/ UnderMount(p) THEN st ELSE IF p \in publicDir.files THEN Responded(st, "static", ServeFile(st.res, p)) ELSE IF p \in publicDir.dirs THEN Responded(st, "static", End(SetHeader(SetStatus(st.res, 301), "location", "<path>/"), [tag |-> "redirect"])) ELSE IF EndsWith(p, <<"/">>) /\ SubSeq(p, 1, Len(p) - 1) \in publicDir.dirs /\ (p \o Tail(pIndex)) \in publicDir.files THEN Responded(st, "static", ServeFile(st.res, p \o Tail(pIndex))) ELSE st

\* express.static(public, { maxAge: '1d' }): GET/HEAD only; serves an existing file, redirects
\* a directory named without its trailing slash, serves a directory's
\* index.html, and otherwise calls next().
ExpressStatic(q, st) == LET p == PathOf(q.url) IN IF q.method \notin {"GET", "HEAD"} THEN st ELSE IF p \in publicDir.files THEN Responded(st, "static", ServeFile(st.res, p)) ELSE IF p \in publicDir.dirs THEN Responded(st, "static", End(SetHeader(SetStatus(st.res, 301), "location", "<path>/"), [tag |-> "redirect"])) ELSE IF EndsWith(p, <<"/">>) /\ SubSeq(p, 1, Len(p) - 1) \in publicDir.dirs /\ (p \o Tail(pIndex)) \in publicDir.files THEN Responded(st, "static", ServeFile(st.res, p \o Tail(pIndex))) ELSE st

\* app.get(pattern, handler): GET (and HEAD) requests on the route's path.
GetRoute(q, pattern) == q.method \in {"GET", "HEAD"} /\ RouteMatch(PathOf(q.url), pattern)

\* Variant: the liveness responder reports the missing backend origin.
HealthNeedsBackend(q, st) == IF GetRoute(q, pHealth) THEN Responded(st, "health", Send(SetStatus(st.res, IF apiEndpoint = <<>> THEN 503 ELSE 200), [tag |-> "text", text |-> <<"OK">>])) ELSE st

Health(q, st) == IF GetRoute(q, pHealth) THEN Responded(st, "health", Send(SetStatus(st.res, 200), [tag |-> "text", text |-> <<"OK">>])) ELSE st

Debug(q, st) == IF GetRoute(q, pDebug) THEN Responded(st, "debug", Json(st.res, [tag |-> "debug", apiEndpoint |-> apiEndpoint, headers |-> q.headers])) ELSE st

ApiTest(q, st) == IF GetRoute(q, pApiTest) THEN Responded(st, "apiTest", Json(st.res, [tag |-> "apiTest", message |-> "API test endpoint is working"])) ELSE st

Test(q, st) == IF GetRoute(q, pTest) THEN Responded(st, "test", Json(st.res, [tag |-> "test", message |-> "Direct test endpoint is working", apiEndpoint |-> apiEndpoint])) ELSE st

AuthHelper(q, st) == IF GetRoute(q, pAuthHelper) THEN Responded(st, "authHelper", Json(st.res, [tag |-> "authHelper", message |-> "Authentication Helper"])) ELSE st

SourceMapSuffix == <<".", "js", ".", "map">>

\* Variant: the expression tested against req.url, query string included.
SourceMapMatchUrl(q) == q.method \in {"GET", "HEAD"} /\ EndsWith(q.url, SourceMapSuffix)

\* app.get(/.*\.js\.map$/, ...): the expression is tested against req.path.
SourceMapMatch(q) == q.method \in {"GET", "HEAD"} /\ EndsWith(PathOf(q.url), SourceMapSuffix)

SourceMap(q, st) == IF SourceMapMatch(q) THEN Responded(st, "sourceMap", Send(SetStatus(st.res, 404), [tag |-> "text", text |-> <<"Source map not available">>])) ELSE st

PortalLoad(q, st) == IF GetRoute(q, pPortalLoad) THEN Responded(st, "portalLoad", Send(SetHeader(st.res, "content-type", "application/javascript"), [tag |-> "text", text |-> <<"portalLoadJs">>])) ELSE st

SearchParam(q, st) == IF GetRoute(q, pSearchParam) THEN Responded(st, "searchParam", Send(SetHeader(st.res, "content-type", "application/javascript"), [tag |-> "text", text |-> <<"searchParamJs">>])) ELSE st

\* The dev-login route is registered whatever the deployment mode or NODE_ENV.
DevLoginRegistered == TRUE

\* Variant: the username compared without regard to case.
CredentialsOkAnyCase(body) == body.username \in {"devuser", "DevUser"} /\ body.password = "devpassword"

CredentialsOk(body) == body.username = "devuser" /\ body.password = "devpassword"

DevLogin(q, st) == IF DevLoginRegistered /\ q.method = "POST" /\ RouteMatch(PathOf(q.url), pDevLogin) THEN (IF CredentialsOk(st.body) THEN Responded(st, "devLogin", Json(st.res, [tag |-> "login", authenticated |-> TRUE, token |-> <<"dev-jwt-token-", "now">>, username |-> st.body.username])) ELSE Responded(st, "devLogin", Json(SetStatus(st.res, 401), [tag |-> "login", authenticated |-> FALSE, token |-> <<>>, username |-> Absent]))) ELSE st

----------------------------------------------------------------------------
(* The proxy handler, app.use('/api', async (req, res) => ...).             *)

\* Domain and stage of API_ENDPOINT, as the handler parses them.
CleanEndpoint(ep) == IF EndsWith(ep, <<"/">>) THEN SubSeq(ep, 1, Len(ep) - 1) ELSE ep

Domain(ep) == IF Includes(ep, <<"/">>) THEN Split(CleanEndpoint(ep), "/")[1] ELSE ep

Stage(ep) == IF Includes(ep, <<"/">>) /\ Len(Split(CleanEndpoint(ep), "/")) > 1 THEN <<"/">> \o Join(Tail(Split(CleanEndpoint(ep), "/")), "/") ELSE <<>>

\* Variant: req.originalUrl, which keeps the mount path.
ApiPathOriginal(q) == q.url

\* const apiPath = req.url || '': the URL below the mount point, query included.
ApiPath(q) == MountedUrl(q.url)

\* const apiUrl = `https://${domain}${stage}${apiPath}`
ApiUrl(q) == <<"https://">> \o Domain(apiEndpoint) \o Stage(apiEndpoint) \o ApiPath(q)

IsAuthPath(apiPath) == Includes(apiPath, <<"/", "auth", "/">>) \/ Includes(apiPath, <<"/", "token", "/">>)

IsJsFile(apiPath) == EndsWith(apiPath, <<".", "js">>)

\* req.headers.origin || `https://${req.headers.host}`
OriginOrHost(q) == IF q.headers["origin"] # Absent THEN q.headers["origin"] ELSE "https://" \o q.headers["host"]

\* The keys of the apiHeaders object: the inbound (lower-case) names and the
\* keys the handler assigns, among them 'Accept' with a capital.
ApiHeaderNames == InHeaderNames \cup {"Accept", "sec-fetch-mode", "sec-fetch-dest"}

ApiHeadersOnlyWhenAbsent(q) == LET auth == IsAuthPath(ApiPath(q)) IN [h \in ApiHeaderNames |-> CASE h = "host" -> Domain(apiEndpoint) [] h = "origin" -> OriginOrHost(q) [] h = "referer" -> (IF q.headers["referer"] # Absent THEN q.headers["referer"] ELSE "https://" \o q.headers["host"]) [] h = "sec-fetch-site" -> (IF auth THEN "cross-site" ELSE q.headers["sec-fetch-site"]) [] h = "sec-fetch-mode" -> (IF auth THEN "cors" ELSE Absent) [] h = "sec-fetch-dest" -> (IF auth THEN "empty" ELSE Absent) [] h = "Accept" -> (IF auth /\ IsJsFile(ApiPath(q)) THEN "application/javascript" ELSE Absent) [] h = "content-length" -> Absent [] OTHER -> q.headers[h]]

ApiHeaders(q) == LET auth == IsAuthPath(ApiPath(q)) IN [h \in ApiHeaderNames |-> CASE h = "host" -> Domain(apiEndpoint) [] h = "origin" -> OriginOrHost(q) [] h = "referer" -> (IF auth THEN OriginOrHost(q) ELSE q.headers["referer"]) [] h = "sec-fetch-site" -> (IF auth THEN "cross-site" ELSE q.headers["sec-fetch-site"]) [] h = "sec-fetch-mode" -> (IF auth THEN "cors" ELSE Absent) [] h = "sec-fetch-dest" -> (IF auth THEN "empty" ELSE Absent) [] h = "Accept" -> (IF auth /\ IsJsFile(ApiPath(q)) THEN "application/javascript" ELSE Absent) [] h = "content-length" -> Absent [] OTHER -> q.headers[h]]

\* Header names are case-insensitive on the wire: of the keys 'accept' and
\* 'Accept', the one assigned last ('Accept') is the one sent.
WireHeaderNames == ApiHeaderNames \ {"Accept"}

OnWire(apiHeaders) == [h \in WireHeaderNames |-> IF h = "accept" /\ apiHeaders["Accept"] # Absent THEN apiHeaders["Accept"] ELSE apiHeaders[h]]

\* The axios call: method, url, headers, data of the outbound request.
AxiosCall(q, st) == [method |-> q.method, url |-> ApiUrl(q), headers |-> OnWire(ApiHeaders(q)), data |-> st.body]

MissingEndpointPayload == [tag |-> "message", message |-> <<"API_ENDPOINT", " environment variable is not set">>]

\* Variant: no missing-endpoint guard.
ProxyHandlerNoGuard(q, st) == IF ~UnderMount(PathOf(q.url)) THEN st ELSE [st EXCEPT !.done = TRUE, !.await = TRUE, !.out = AxiosCall(q, st), !.ran = @ \cup {"proxy"}]

\* Up to the await: the missing-endpoint guard, or the outbound call issued.
ProxyHandler(q, st) == IF ~UnderMount(PathOf(q.url)) THEN st ELSE IF apiEndpoint = <<>> THEN Responded(st, "proxy", Json(SetStatus(st.res, 500), MissingEndpointPayload)) ELSE [st EXCEPT !.done = TRUE, !.await = TRUE, !.out = AxiosCall(q, st), !.ran = @ \cup {"proxy"}]

\* Variant: the fallback registered for GET only.
SpaFallbackGetOnly(q, st) == IF q.method # "GET" \/ Includes(PathOf(q.url), <<".">>) THEN st ELSE IF pIndex \in publicDir.files THEN Responded(st, "spa", SendFile(st.res, pIndex)) ELSE st

\* Client-side routing: index.html for every request whose path has no dot.
SpaFallback(q, st) == IF Includes(PathOf(q.url), <<".">>) THEN st ELSE IF pIndex \in publicDir.files THEN Responded(st, "spa", SendFile(st.res, pIndex)) ELSE st

ErrorPayload == [tag |-> "error", message |-> "Internal Server Error", fields |-> {"message", "error", "stack"}]

\* app.use((err, req, res, next) => ...)
ErrorHandler(q, st) == Responded(st, "errorHandler", Json(SetStatus(st.res, 500), ErrorPayload))

\* Express's final handler, when no middleware ended the chain.
FinalHandler(q, st) == IF st.done \/ st.res.sent THEN st ELSE Responded(st, "notFound", Send(SetStatus(st.res, 404), [tag |-> "text", text |-> <<"Cannot ", q.method>>]))

LayersProxyFirst == <<"json", "urlencoded", "security", "static", "proxy", "health", "debug", "apiTest", "test", "authHelper", "sourceMap", "portalLoad", "searchParam", "devLogin", "spa", "errorHandler">>

\* The handlers in registration order.
Layers == <<"json", "urlencoded", "security", "static", "health", "debug", "apiTest", "test", "authHelper", "sourceMap", "portalLoad", "searchParam", "devLogin", "proxy", "spa", "errorHandler">>

Handle(name, q, st) == CASE name = "json" -> ExpressJson(q, st) [] name = "urlencoded" -> ExpressUrlencoded(q, st) [] name = "security" -> SecurityHeaders(q, st) [] name = "static" -> ExpressStatic(q, st) [] name = "health" -> Health(q, st) [] name = "debug" -> Debug(q, st) [] name = "apiTest" -> ApiTest(q, st) [] name = "test" -> Test(q, st) [] name = "authHelper" -> AuthHelper(q, st) [] name = "sourceMap" -> SourceMap(q, st) [] name = "portalLoad" -> PortalLoad(q, st) [] name = "searchParam" -> SearchParam(q, st) [] name = "devLogin" -> DevLogin(q, st) [] name = "proxy" -> ProxyHandler(q, st) [] name = "spa" -> SpaFallback(q, st) [] name = "errorHandler" -> ErrorHandler(q, st)

\* Express's router: a handler runs while no earlier one has ended the chain;
\* with an error pending only the error-handling middleware runs.
Dispatch(name, q, st) == IF st.done THEN st ELSE IF st.err = (name = "errorHandler") THEN Handle(name, q, st) ELSE st

RECURSIVE RunFrom(_, _, _)
RunFrom(i, q, st) == IF i > Len(Layers) THEN FinalHandler(q, st) ELSE RunFrom(i + 1, q, Dispatch(Layers[i], q, st))

Pipeline(q) == RunFrom(1, q, NewChain)

----------------------------------------------------------------------------
(* The backend's answers and the completion of the awaited call.            *)

\* Response headers of the backend: its content type, a redirect target, and
\* its own values for two of the names the proxy sets on every response.
BackendHeaderNames == {"content-type", "location", "x-frame-options", "access-control-allow-origin"}

BackendResponse(status, ctype, location, body) == [status |-> status, headers |-> [h \in BackendHeaderNames |-> CASE h = "content-type" -> ctype [] h = "location" -> location [] OTHER -> Absent], body |-> body]

CompactJson == <<"{", "x", ":", "1", "}">>

SpacedJson == <<"{", " ", "x", ":", " ", "1", " ", "}">>

\* A backend answer carrying its own framing and CORS policy.
OwnPolicyResponse == [BackendResponse(200, "application/json", Absent, CompactJson) EXCEPT !.headers["x-frame-options"] = "SAMEORIGIN", !.headers["access-control-allow-origin"] = "https://backend.example"]

\* A backend answer one of whose headers cannot be set on the response.
InvalidHeaderResponse == [BackendResponse(404, "application/json", Absent, CompactJson) EXCEPT !.headers["x-frame-options"] = InvalidHeaderValue, !.headers["access-control-allow-origin"] = "https://backend.example"]

BackendResponses == {OwnPolicyResponse, InvalidHeaderResponse, BackendResponse(200, "application/json", Absent, CompactJson), BackendResponse(200, "application/json", Absent, SpacedJson), BackendResponse(200, "text/plain", Absent, <<"hello">>), BackendResponse(302, Absent, "https://idp.example/login", <<>>), BackendResponse(404, "application/json", Absent, CompactJson), BackendResponse(503, "application/json", Absent, CompactJson), BackendResponse(200, BadMediaType, Absent, <<"hello">>)}

\* maxRedirects: 0
MaxRedirects == 0

IsRedirect(b) == b.status \in 300..399 /\ b.headers["location"] # Absent

JsonWhitespace == {" "}

IsSignificant(t) == t \notin JsonWhitespace

\* axios's default transformResponse: a body that parses as JSON becomes the
\* parsed value (its whitespace is gone), any other body stays a string.
IsJsonText(raw) == SelectSeq(raw, IsSignificant) # <<>> /\ Head(SelectSeq(raw, IsSignificant)) = "{"

AxiosData(raw) == IF IsJsonText(raw) THEN [kind |-> "object", value |-> SelectSeq(raw, IsSignificant)] ELSE [kind |-> "string", value |-> raw]

\* What res.send(response.data) writes: a string as it is, an object through
\* JSON.stringify.
UpstreamPayload(data) == [tag |-> "upstream", bytes |-> data.value]

\* Object.entries(response.headers).forEach(... res.setHeader(key, value) ...)
CopyHeaders(r, headers) == IF r.sent THEN [r EXCEPT !.late = @ + 1] ELSE [r EXCEPT !.hdr = [h \in ResHeaderNames |-> IF h \in DOMAIN headers /\ headers[h] # Absent /\ ~SetHeaderThrows(headers[h]) THEN headers[h] ELSE @[h]]]

ForwardResponseAbort(r, b) == LET copied == CopyHeaders(SetStatus(r, b.status), b.headers) data == AxiosData(b.body) IN IF \E h \in DOMAIN b.headers : SetHeaderThrows(b.headers[h]) THEN Json(SetStatus(r, 500), ErrorPayload) ELSE IF SendThrows(copied) THEN SetStatus(copied, 500) ELSE IF data.kind = "object" THEN Json(copied, UpstreamPayload(data)) ELSE Send(copied, UpstreamPayload(data))

\* res.status(response.status); the header copy; res.send(response.data).
ForwardResponse(r, b) == LET copied == CopyHeaders(SetStatus(r, b.status), b.headers) data == AxiosData(b.body) IN IF SendThrows(copied) THEN SetStatus(copied, 500) ELSE IF data.kind = "object" THEN Json(copied, UpstreamPayload(data)) ELSE Send(copied, UpstreamPayload(data))

BadGatewayPayload == [tag |-> "error", message |-> "Bad Gateway", fields |-> {"message", "error", "details"}]

----------------------------------------------------------------------------
(* SchedulerHelper (source/infrastructure/lib/helpers/scheduler-helper.ts). *)
(* Schedule expressions are token sequences: "rate(", "cron(", ")", " ",    *)
(* unit words, and single characters for amounts and cron fields.           *)

\* scope.node.tryGetContext('useAlbArchitecture'): undefined, a boolean, a
\* string or a number, written with its JavaScript type.
ContextValues == {Absent, "boolean:true", "boolean:false", "string:true", "string:false", "number:1"}

\* process.env.USE_ALB_ARCHITECTURE: undefined or a string.
EnvValues == {Absent, "true", "false", "TRUE"}

\* An optional number that was not given.
Unset == -1

\* Variant: the environment variable consulted before the context.
UseAlbArchitectureEnvFirst(contextValue, envValue) == IF envValue # Absent THEN envValue = "true" ELSE IF contextValue # Absent THEN contextValue = "boolean:true" \/ contextValue = "string:true" ELSE FALSE

\* Lines 38-48: the architecture flag.
UseAlbArchitecture(contextValue, envValue) == IF contextValue # Absent THEN contextValue = "boolean:true" \/ contextValue = "string:true" ELSE IF envValue # Absent THEN envValue = "true" ELSE FALSE

\* String.prototype.match(/open(.+)\)/): the leftmost occurrence of the
\* opening token that is followed by at least one token and a ')', with the
\* group running to the last ')'; <<>> when there is no match (a matched group
\* is never empty).
MatchStarts(s, open) == {i \in 1..Len(s) : s[i] = open /\ \E j \in (i + 2)..Len(s) : s[j] = ")"}

MatchGroup(s, open) == IF MatchStarts(s, open) = {} THEN <<>> ELSE LET i == CHOOSE a \in MatchStarts(s, open) : \A b \in MatchStarts(s, open) : a <= b j == CHOOSE a \in 1..Len(s) : s[a] = ")" /\ \A b \in 1..Len(s) : s[b] = ")" => b <= a IN SubSeq(s, i + 1, j - 1)

DigitChars == <<"0", "1", "2", "3", "4", "5", "6", "7", "8", "9">>

IsDigit(c) == \E d \in 1..10 : DigitChars[d] = c

DigitValue(c) == (CHOOSE d \in 1..10 : DigitChars[d] = c) - 1

RECURSIVE DigitsValue(_, _)
DigitsValue(chars, acc) == IF chars = <<>> \/ ~IsDigit(Head(chars)) THEN acc ELSE DigitsValue(Tail(chars), 10 * acc + DigitValue(Head(chars)))

NaN == [nan |-> TRUE, value |-> 0]

\* parseInt(amount): an optional sign and the leading digits; what follows the
\* digits is ignored; NaN without a leading digit.
ParseInt(chars) == LET signed == chars # <<>> /\ Head(chars) \in {"-", "+"} digits == IF signed THEN Tail(chars) ELSE chars IN IF digits = <<>> \/ ~IsDigit(Head(digits)) THEN NaN ELSE [nan |-> FALSE, value |-> (IF Head(chars) = "-" THEN -1 ELSE 1) * DigitsValue(digits, 0)]

UnitMinutesPluralOnly(unit) == IF unit = <<"minutes">> THEN 1 ELSE IF unit = <<"hours">> THEN 60 ELSE IF unit = <<"days">> THEN 1440 ELSE 0

\* The switch on unit: minutes per unit, 0 for the default branch.
UnitMinutes(unit) == IF unit \in {<<"minute">>, <<"minutes">>} THEN 1 ELSE IF unit \in {<<"hour">>, <<"hours">>} THEN 60 ELSE IF unit \in {<<"day">>, <<"days">>} THEN 1440 ELSE 0

Failure(kind, expression, guidance) == [ok |-> FALSE, error |-> [kind |-> kind, expression |-> expression, guidance |-> guidance]]

RateOf(value, unit) == [ok |-> TRUE, schedule |-> [nan |-> FALSE, value |-> value, unit |-> unit]]

\* Schedule.rate(Duration.<unit>(numAmount)): Duration rejects a negative
\* amount, Schedule.rate a zero one, and the rate is written in the largest
\* unit that divides it.  A NaN amount fails the conversion to whole minutes,
\* except that a NaN number of minutes is rejected or not depending on the
\* library version (nanRejected).
ScheduleRate(num, unitMinutes, nanRejected) == IF num.nan THEN (IF unitMinutes = 1 /\ ~nanRejected THEN [ok |-> TRUE, schedule |-> [nan |-> TRUE, value |-> 0, unit |-> "minute"]] ELSE Failure("not a whole number of minutes", <<>>, FALSE)) ELSE IF num.value < 0 THEN Failure("Duration amounts cannot be negative", <<>>, FALSE) ELSE IF num.value = 0 THEN Failure("Duration cannot be 0", <<>>, FALSE) ELSE LET minutes == num.value * unitMinutes IN IF minutes % 1440 = 0 THEN RateOf(minutes \div 1440, "day") ELSE IF minutes % 60 = 0 THEN RateOf(minutes \div 60, "hour") ELSE RateOf(minutes, "minute")

\* Lines 78-113: the rate branch.
RateBranch(expr, nanRejected) == LET group == MatchGroup(expr, "rate(") rateParts == Split(group, " ") IN IF group = <<>> THEN Failure("Invalid rate expression", expr, FALSE) ELSE IF ~(Len(rateParts) >= 2 /\ rateParts[1] # <<>> /\ rateParts[2] # <<>>) THEN Failure("Invalid rate expression format", expr, FALSE) ELSE IF UnitMinutes(rateParts[2]) = 0 THEN Failure("Unsupported rate unit", rateParts[2], FALSE) ELSE ScheduleRate(ParseInt(rateParts[1]), UnitMinutes(rateParts[2]), nanRejected)

MonthlyCron == <<"2", "5", " ", "1", " ", "4", " ", "*", " ", "?", " ", "*">>

\* Lines 114-144: the cron branch.
CronBranch(expr) == LET cronExpression == MatchGroup(expr, "cron(") IN IF cronExpression = <<>> THEN Failure("Invalid cron expression", expr, FALSE) ELSE IF cronExpression = MonthlyCron THEN RateOf(30, "day") ELSE Failure("Complex cron expressions are not fully supported", expr, TRUE)

\* Lines 76-152 for a string expression.
ToSchedule(expr, nanRejected) == IF StartsWith(expr, <<"rate(">>) THEN RateBranch(expr, nanRejected) ELSE IF StartsWith(expr, <<"cron(">>) THEN CronBranch(expr) ELSE Failure("Unsupported schedule expression", expr, FALSE)

NoConstruct == [type |-> "none"]

\* config.retryAttempts || 3 and config.retryAttempts || 2: undefined and 0
\* are both falsy.
OrDefault(n, default) == IF n = Unset \/ n = 0 THEN default ELSE n

\* createCloudWatchEventsRule: throws before creating anything, or creates
\* the role and the Rule whose Lambda target has only retryAttempts.
CreateCloudWatchEventsRule(config, nanRejected) == LET parsed == ToSchedule(config.scheduleExpression, nanRejected) IN IF ~parsed.ok THEN [threw |-> TRUE, error |-> parsed.error, role |-> Absent, rule |-> NoConstruct, schedule |-> NoConstruct] ELSE [threw |-> FALSE, error |-> Absent, role |-> "events.amazonaws.com", rule |-> [type |-> "Rule", description |-> config.description, schedule |-> parsed.schedule, retryAttempts |-> OrDefault(config.retryAttempts, 3), input |-> Absent], schedule |-> NoConstruct]

\* createEventBridgeScheduler: the role and the CfnSchedule; input only when
\* config.input is truthy.
CreateEventBridgeScheduler(config) == [threw |-> FALSE, error |-> Absent, role |-> "scheduler.amazonaws.com", rule |-> NoConstruct, schedule |-> [type |-> "CfnSchedule", description |-> config.description, scheduleExpression |-> config.scheduleExpression, maximumWindowInMinutes |-> OrDefault(config.maximumWindowInMinutes, 60), maximumRetryAttempts |-> OrDefault(config.retryAttempts, 2), input |-> (IF config.input \in {Absent, ""} THEN Absent ELSE config.input)]]

NoSched == [phase |-> "none"]

NoEdge == [phase |-> "none"]

----------------------------------------------------------------------------
(* State and actions.                                                       *)

Reqs == {"r1", "r2"}

NoRequest == Request(Absent, <<>>, <<>>, {}, NoBody)

NoAnswer == [status |-> 0]

\* The two ways the awaited call rejects: error.request is set (nothing was
\* received), or it is not (the request could not be set up).
NoResponseReceived == [status |-> 0, failure |-> "request"]

SetupFailure == [status |-> 0, failure |-> "setup"]

\* The proxy just started: listening, no request received yet.
Started == /\ pc = [r \in Reqs |-> "idle"] /\ req = [r \in Reqs |-> NoRequest] /\ res = [r \in Reqs |-> NewRes] /\ out = [r \in Reqs |-> NoCall] /\ calls = [r \in Reqs |-> 0] /\ ran = [r \in Reqs |-> {}] /\ answer = [r \in Reqs |-> NoAnswer] /\ server = "listening"

Init == /\ apiEndpoint \in Endpoints /\ publicDir \in PublicDirs /\ deploymentMode \in DeploymentModes /\ Started /\ sched = NoSched /\ edge = NoEdge

Config == <<apiEndpoint, publicDir, deploymentMode, edge>>

\* A request arrives on a connection the listening server accepts and runs
\* through the middleware chain, up to its response or to the await of the
\* outbound call.
Arrive(r, q) == /\ server = "listening" /\ pc[r] = "idle" /\ LET st == Pipeline(q) IN /\ req' = [req EXCEPT ![r] = q] /\ res' = [res EXCEPT ![r] = st.res] /\ out' = [out EXCEPT ![r] = st.out] /\ ran' = [ran EXCEPT ![r] = st.ran] /\ calls' = [calls EXCEPT ![r] = IF st.await THEN 1 ELSE 0] /\ pc' = [pc EXCEPT ![r] = IF st.res.sent THEN "RESPONDED" ELSE IF st.await THEN "FORWARDED" ELSE "HUNG"] /\ UNCHANGED <<Config, sched, answer, server>>

\* The backend answers: axios resolves (validateStatus accepts any status);
\* with redirects allowed it would first follow a 3xx answer.
BackendAnswer(r, b) == /\ pc[r] = "FORWARDED" /\ IF IsRedirect(b) /\ calls[r] <= MaxRedirects THEN /\ calls' = [calls EXCEPT ![r] = @ + 1] /\ UNCHANGED <<pc, res, answer>> ELSE /\ res' = [res EXCEPT ![r] = ForwardResponse(@, b)] /\ answer' = [answer EXCEPT ![r] = b] /\ pc' = [pc EXCEPT ![r] = IF ForwardResponse(res[r], b).sent THEN "RESPONDED" ELSE "HUNG"] /\ UNCHANGED calls /\ UNCHANGED <<Config, sched, req, out, ran, server>>

\* No response was received (connection failure, DNS failure, timeout):
\* the catch block's error.request branch.
\* Variant: the error.request branch answering like the last branch.
BackendNoResponseGeneric(r) == /\ pc[r] = "FORWARDED" /\ res' = [res EXCEPT ![r] = Json(SetStatus(@, 500), ErrorPayload)] /\ answer' = [answer EXCEPT ![r] = NoResponseReceived] /\ pc' = [pc EXCEPT ![r] = "RESPONDED"] /\ UNCHANGED <<Config, sched, req, out, calls, ran, server>>

BackendNoResponse(r) == /\ pc[r] = "FORWARDED" /\ res' = [res EXCEPT ![r] = Json(SetStatus(@, 502), BadGatewayPayload)] /\ answer' = [answer EXCEPT ![r] = NoResponseReceived] /\ pc' = [pc EXCEPT ![r] = "RESPONDED"] /\ UNCHANGED <<Config, sched, req, out, calls, ran, server>>

\* The request could not be set up: the catch block's last branch.
BackendSetupError(r) == /\ pc[r] = "FORWARDED" /\ res' = [res EXCEPT ![r] = Json(SetStatus(@, 500), ErrorPayload)] /\ answer' = [answer EXCEPT ![r] = SetupFailure] /\ pc' = [pc EXCEPT ![r] = "RESPONDED"] /\ UNCHANGED <<Config, sched, req, out, calls, ran, server>>

Signals == {"SIGTERM", "SIGINT"}

\* A connection that has not ended: its request awaits the backend, or its
\* response was never sent.
InFlight(r) == pc[r] \in {"FORWARDED", "HUNG"}

\* process.on(sig, () => server.close(...)): the server stops accepting
\* connections; a later signal finds it closed already.
Signal(sig) == /\ sig \in Signals /\ server # "exited" /\ server' = "closing" /\ UNCHANGED <<Config, sched, pc, req, res, out, calls, ran, answer>>

\* Variant: the signal handler exits without waiting for server.close.
ExitNow == /\ server = "closing" /\ server' = "exited" /\ UNCHANGED <<Config, sched, pc, req, res, out, calls, ran, answer>>

\* The callback of server.close: runs once every connection has ended, and
\* calls process.exit(0).
Exit == /\ server = "closing" /\ (\A r \in Reqs : ~InFlight(r)) /\ server' = "exited" /\ UNCHANGED <<Config, sched, pc, req, res, out, calls, ran, answer>>

Single == {"r1"}

\* One request at a time, over the whole request population.
Next ==
    \/ \E r \in Single, q \in Requests : Arrive(r, q)
    \/ \E r \in Single, b \in BackendResponses : BackendAnswer(r, b)
    \/ \E r \in Single : BackendNoResponse(r)
    \/ \E r \in Single : BackendSetupError(r)

Spec == Init /\ [][Next]_vars


\* Concurrent requests: both connections, over a smaller population.
ConcRequests == {Request(m, p, <<>>, {}, b) : m \in Methods, p \in {<<"/">>, pHealth, pDebug, pDashboard, pAssets, pApiX}, b \in {NoBody, MalformedJson}}

ConcResponses == {BackendResponse(200, "application/json", Absent, CompactJson), BackendResponse(503, "application/json", Absent, CompactJson), BackendResponse(200, BadMediaType, Absent, <<"hello">>)}

InitConc == Init /\ apiEndpoint \in {<<>>, <<"d", "/", "prod", "/">>} /\ deploymentMode = NODE_ENV

NextConc ==
    \/ \E r \in Reqs, q \in ConcRequests : Arrive(r, q)
    \/ \E r \in Reqs, b \in ConcResponses : BackendAnswer(r, b)
    \/ \E r \in Reqs : BackendNoResponse(r)
    \/ \E r \in Reqs : BackendSetupError(r)

SpecConc == InitConc /\ [][NextConc]_vars

\* The server from start to exit: both connections, the termination signals
\* and the close callback, which the event loop runs once it is due.
NextDrain ==
    \/ \E r \in Reqs, q \in ConcRequests : Arrive(r, q)
    \/ \E r \in Reqs, b \in ConcResponses : BackendAnswer(r, b)
    \/ \E r \in Reqs : BackendNoResponse(r)
    \/ \E r \in Reqs : BackendSetupError(r)
    \/ \E sig \in Signals : Signal(sig)
    \/ Exit

SpecDrain == InitConc /\ [][NextDrain]_vars /\ WF_vars(Exit)

\* The axios promise of r settles: the backend answers, or the call fails
\* (timeout: 30000 bounds the wait for an answer).
Settle(r) == (\E b \in ConcResponses : BackendAnswer(r, b)) \/ BackendNoResponse(r) \/ BackendSetupError(r)

SpecTimeout == InitConc /\ [][NextConc]_vars /\ \A r \in Reqs : WF_vars(Settle(r))

----------------------------------------------------------------------------
(* Stack synthesis: one call of SchedulerHelper.createScheduler.            *)

RateExpr(amount, unit) == <<"rate(">> \o amount \o <<" ", unit, ")">>

Amounts == {<<"2">>, <<"1">>, <<"0">>, <<"-", "2">>, <<"1", ".", "5">>, <<"2", "x">>, <<"x">>, <<"2", "4">>}

Units == {"minute", "minutes", "hour", "hours", "day", "days", "week", "Hours"}

RateExpressions == {RateExpr(a, u) : a \in Amounts, u \in Units}

\* Rate strings that are not of the form rate(<amount> <unit>).
OddRateExpressions == {<<"rate(", "2", " ", "hours">>, <<"rate(", "2", ")">>, <<"rate(", ")">>, <<"rate(", "2", " ", " ", "hours", ")">>, <<"rate(", "2", " ", "hours", " ", "x", ")">>, <<"rate(", "2", " ", "hours", ")", "x">>}

CronExpr(fields) == <<"cron(">> \o fields \o <<")">>

NoonCron == <<"0", " ", "1", "2", " ", "*", " ", "*", " ", "?", " ", "*">>

CronExpressions == {CronExpr(MonthlyCron), CronExpr(NoonCron), CronExpr(MonthlyCron) \o <<"x">>, CronExpr(<<>>), <<"cron(">> \o MonthlyCron, CronExpr(<<" ">> \o MonthlyCron)}

OtherExpressions == {<<>>, <<"at(", "2", ")">>, <<"e", "v", "e", "r", "y", " ", "day">>, <<" ", "rate(", "2", " ", "hours", ")">>}

ScheduleExpressions == RateExpressions \cup OddRateExpressions \cup CronExpressions \cup OtherExpressions

GatherMetrics == "{\"action\":\"gather-metrics\"}"

SchedulerConfig(expr, retry, window, input) == [description |-> "triggers the job", scheduleExpression |-> expr, retryAttempts |-> retry, maximumWindowInMinutes |-> window, input |-> input]

\* Every flag combination over the retry, window and input options, on three
\* expressions.
FlagConfigs == {SchedulerConfig(e, r, w, i) : e \in {RateExpr(<<"2">>, "hours"), CronExpr(MonthlyCron), CronExpr(NoonCron)}, r \in {Unset, 0, 2, 5}, w \in {Unset, 30}, i \in {Absent, "", GatherMetrics}}

\* Every expression, under each mechanism.
ExpressionConfigs == {SchedulerConfig(e, 2, 60, Absent) : e \in ScheduleExpressions}

Pending(contextValue, envValue, config) == [phase |-> "called", context |-> contextValue, env |-> envValue, config |-> config, mechanism |-> Absent, result |-> NoConstruct]

\* The configurations the repository's own call sites pass: lease monitoring,
\* drift monitoring, deployment summary, cost reporting.
CallSiteConfigs == {SchedulerConfig(RateExpr(<<"1">>, "hour"), 20, 5, Absent), SchedulerConfig(RateExpr(<<"6">>, "hour"), 10, 30, Absent), SchedulerConfig(RateExpr(<<"1">>, "day"), 2, 60, GatherMetrics), SchedulerConfig(CronExpr(MonthlyCron), 5, 360, Absent)}

SchedInputs == {Pending(c, e, cfg) : c \in ContextValues, e \in EnvValues, cfg \in FlagConfigs} \cup {Pending(c, Absent, cfg) : c \in {"boolean:true", "boolean:false"}, cfg \in ExpressionConfigs} \cup {Pending(c, e, cfg) : c \in ContextValues, e \in EnvValues, cfg \in CallSiteConfigs}

\* createScheduler(scope, id, lambdaFunction, config): resolves the flag and
\* calls exactly one of the two private methods; a throw propagates.
CreateScheduler(nanRejected) == /\ sched.phase = "called" /\ LET alb == UseAlbArchitecture(sched.context, sched.env) created == IF alb THEN CreateCloudWatchEventsRule(sched.config, nanRejected) ELSE CreateEventBridgeScheduler(sched.config) IN sched' = [sched EXCEPT !.phase = IF created.threw THEN "threw" ELSE "returned", !.mechanism = IF alb THEN "A" ELSE "B", !.result = created] /\ UNCHANGED <<Config, pc, req, res, out, calls, ran, answer, server>>

InitSched == /\ apiEndpoint = <<>> /\ publicDir = [files |-> {}, dirs |-> {}] /\ deploymentMode = NODE_ENV /\ Started /\ sched \in SchedInputs /\ edge = NoEdge

NextSched == \E nanRejected \in BOOLEAN : CreateScheduler(nanRejected)

SpecSched == InitSched /\ [][NextSched]_vars

----------------------------------------------------------------------------
(* Stack synthesis: the AlbUiApi construct (target group and listeners).    *)

\* Values of the certificateArn context key: not set, set to the empty
\* string, or the ARN of an ACM certificate.
CertificateArns == {Absent, "", "arn:aws:acm:us-east-1:111122223333:certificate/a", "arn:aws:acm:us-east-1:111122223333:certificate/b"}

\* props.vpc: a VPC passed in, or none (the construct then creates one).
VpcOptions == {Absent, "TestVpc"}

\* JavaScript truthiness of a context value that is a string or undefined.
Truthy(value) == value \notin {Absent, ""}

ApiTargetGroup(vpc) == [id |-> "IsbApiTargetGroup", vpc |-> vpc, port |-> 8080, protocol |-> "HTTP", targetType |-> "IP", healthCheck |-> [path |-> "/health", interval |-> 60, timeout |-> 30, healthyThresholdCount |-> 2, unhealthyThresholdCount |-> 5], targets |-> {"IsbApiProxyService"}]

\* ListenerAction.forward([targetGroup]).
Forward(targetGroup) == [type |-> "forward", targetGroups |-> {targetGroup.id}, protocol |-> Absent, port |-> Absent, statusCode |-> Absent]

\* ListenerAction.redirect({protocol, port, permanent}).
Redirect(protocol, port, permanent) == [type |-> "redirect", targetGroups |-> {}, protocol |-> protocol, port |-> port, statusCode |-> IF permanent THEN "HTTP_301" ELSE "HTTP_302"]

Listener(id, port, protocol, certificates, defaultAction) == [id |-> id, port |-> port, protocol |-> protocol, certificates |-> certificates, defaultActions |-> <<defaultAction>>]

ListenersHttpOnly(certificateArn, targetGroup) == {Listener("IsbHttpListener", 80, "HTTP", {}, Forward(targetGroup))}

\* if (certificateArn) { HTTPS listener, redirecting HTTP listener } else
\* { forwarding HTTP listener }.
Listeners(certificateArn, targetGroup) == IF Truthy(certificateArn) THEN {Listener("IsbHttpsListener", 443, "HTTPS", {certificateArn}, Forward(targetGroup)), Listener("IsbHttpListener", 80, "HTTP", {}, Redirect("HTTPS", "443", TRUE))} ELSE {Listener("IsbHttpListener", 80, "HTTP", {}, Forward(targetGroup))}

AlbUrl(certificateArn) == IF Truthy(certificateArn) THEN "https://<loadBalancerDnsName>" ELSE "http://<loadBalancerDnsName>"

EdgeInputs == {[phase |-> "called", certificateArn |-> c, vpc |-> v] : c \in CertificateArns, v \in VpcOptions}

\* new AlbUiApi(scope, id, props): the constructor, from the VPC to the
\* AlbUrl output.  apiEndpoint is props.restApi.url without its scheme and
\* deploymentMode the value isDevMode(scope) reads.
AlbUiApi == /\ edge.phase = "called" /\ LET vpc == IF edge.vpc # Absent THEN edge.vpc ELSE "IsbVpc" targetGroup == ApiTargetGroup(vpc) IN edge' = [phase |-> "built", certificateArn |-> edge.certificateArn, vpc |-> vpc, removalPolicy |-> IF deploymentMode = "development" THEN "DESTROY" ELSE "RETAIN", environment |-> [API_ENDPOINT |-> apiEndpoint, NODE_ENV |-> NODE_ENV], targetGroups |-> {targetGroup}, listeners |-> Listeners(edge.certificateArn, targetGroup), albUrl |-> AlbUrl(edge.certificateArn)] /\ UNCHANGED <<apiEndpoint, publicDir, deploymentMode, pc, req, res, out, calls, ran, answer, server, sched>>

InitEdge == /\ apiEndpoint \in Endpoints /\ publicDir = [files |-> {}, dirs |-> {}] /\ deploymentMode \in DeploymentModes /\ Started /\ sched = NoSched /\ edge \in EdgeInputs

NextEdge == AlbUiApi

SpecEdge == InitEdge /\ [][NextEdge]_vars

----------------------------------------------------------------------------
(* Properties.                                                              *)

Arrived(r) == pc[r] # "idle"

Path(r) == PathOf(req[r].url)

\* The body parsers accept the request's body (or it has none).
Parses(r) == ~(req[r].body.enc = "json" /\ ~req[r].body.valid)

\* The static-file step answers the request from the public directory.
NamesPublicEntry(r) == req[r].method \in {"GET", "HEAD"} /\ Path(r) \in publicDir.files \cup publicDir.dirs

SentText(r, text) == res[r].body.tag = "text" /\ res[r].body.text = text

\* C1: on every branch of the pipeline at most one response is sent for a
\* request, and nothing (status, header or body) is written to a response
\* after it was sent; a request counts as responded exactly when its
\* response was sent.  This covers an error raised by res.send after the
\* backend's status and headers were set on the response.
C1_SingleResponse == \A r \in Reqs : res[r].late = 0 /\ (res[r].sent <=> pc[r] = "RESPONDED")

\* The forward handler's catch block ran after the backend's status and
\* headers had been set: the response carries the backend's Content-Type
\* and the catch block's status, and nothing was sent twice.
C1_Witness == \E r \in Reqs : pc[r] = "HUNG" /\ calls[r] = 1 /\ answer[r].status # 0 /\ res[r].status = 500 /\ res[r].hdr["content-type"] = answer[r].headers["content-type"]

SourceMapAnswer(r) == pc[r] = "RESPONDED" /\ res[r].status = 404 /\ SentText(r, <<"Source map not available">>) /\ calls[r] = 0 /\ out[r] = NoCall

CorsHeaders == {"access-control-allow-origin", "access-control-allow-methods", "access-control-allow-headers"}

PreflightAnswer(r) == pc[r] = "RESPONDED" /\ res[r].status = 200 /\ res[r].body = EmptyPayload /\ (\A h \in CorsHeaders : res[r].hdr[h] # Absent) /\ ran[r] = {"preflight"} /\ calls[r] = 0 /\ out[r] = NoCall

MissingEndpointAnswer(r) == pc[r] = "RESPONDED" /\ res[r].status = 500 /\ res[r].body.tag = "message" /\ Includes(res[r].body.message, <<"API_ENDPOINT">>) /\ calls[r] = 0 /\ out[r] = NoCall

ReachedForwardStep(r) == "proxy" \in ran[r]

IsHealthCheck(r) == req[r].method = "GET" /\ Path(r) = pHealth

Forwarded(r) == calls[r] >= 1

\* API_ENDPOINT before its first '/', and the rest without a trailing slash.
DomainPart(ep) == IF IndexOf(ep, "/") = 0 THEN ep ELSE SubSeq(ep, 1, IndexOf(ep, "/") - 1)

RestPart(ep) == IF IndexOf(ep, "/") = 0 THEN <<>> ELSE Slice(ep, IndexOf(ep, "/"))

StagePart(ep) == IF EndsWith(RestPart(ep), <<"/">>) THEN SubSeq(RestPart(ep), 1, Len(RestPart(ep)) - 1) ELSE RestPart(ep)

BackendBase == <<"https://">> \o DomainPart(apiEndpoint) \o StagePart(apiEndpoint)

\* C5 as stated: the outbound URL is https://<domain><stage>/api/P, the /api
\* prefix preserved.
C5_Original == \A r \in Reqs : Forwarded(r) => out[r].url = BackendBase \o req[r].url

\* C5, amended: for a forwarded request to inbound path /api/P the outbound
\* URL is https://<domain><stage>/P followed by the inbound query string:
\* the /api prefix is removed, so the backend receives /P, not /api/P.
C5_OutboundUrl == \A r \in Reqs : Forwarded(r) => StartsWith(req[r].url, ApiPrefix) /\ out[r].url = BackendBase \o Slice(req[r].url, Len(ApiPrefix) + 1)

C5_Witness == \E r \in Reqs : Forwarded(r) /\ apiEndpoint = <<"d", "/", "prod", "/">> /\ req[r].url = <<"/", "api", "/", "x", "?", "v", "=", "1">> /\ out[r].url = <<"https://", "d", "/", "prod", "/", "x", "?", "v", "=", "1">>

\* The backend answered the outbound call.
Answered(r) == answer[r].status # 0

\* C6: for every forwarded request the backend answers, the caller receives
\* exactly the backend's status and body, whatever the status; a 3xx answer
\* is not followed (one outbound call) and its Location header is passed on
\* untouched.
C6_Original == \A r \in Reqs : Answered(r) => pc[r] = "RESPONDED" /\ res[r].status = answer[r].status /\ res[r].body.tag = "upstream" /\ res[r].body.bytes = answer[r].body /\ calls[r] = 1 /\ res[r].hdr["location"] = answer[r].headers["location"]

IsAuthScriptPath(path) == StartsWith(path, <<"/", "api", "/", "auth", "/">>) /\ EndsWith(path, <<".", "js">>)

\* C7: a forwarded request to /api/auth/<name>.js reaches the backend with
\* Accept: application/javascript, whatever Accept the caller sent, and with
\* sec-fetch-site: cross-site, sec-fetch-mode: cors, sec-fetch-dest: empty.
C7_Original == \A r \in Reqs : Forwarded(r) /\ IsAuthScriptPath(Path(r)) => out[r].headers["accept"] = "application/javascript" /\ out[r].headers["sec-fetch-site"] = "cross-site" /\ out[r].headers["sec-fetch-mode"] = "cors" /\ out[r].headers["sec-fetch-dest"] = "empty"

IsDevLogin(r) == req[r].method = "POST" /\ Path(r) = pDevLogin

\* The credential pair the body parsers deliver to the handler.
Credentials(r) == IF req[r].body.enc \in {"json", "form"} THEN <<req[r].body.username, req[r].body.password>> ELSE <<Absent, Absent>>

LoginGranted(r) == res[r].body.tag = "login" /\ res[r].body.authenticated /\ res[r].body.token # <<>>

LoginDenied(r) == res[r].status = 401 /\ res[r].body.tag = "login" /\ ~res[r].body.authenticated /\ res[r].body.token = <<>>

\* C8: in a development deployment, POST /api/auth/dev-login answers 200 with
\* authenticated = true and a token for the pair devuser/devpassword, and 401
\* with authenticated = false for every other pair (wrong, missing or
\* differently cased username or password), in either parsed encoding;
\* the backend is contacted in neither case.
C8_DevLogin == deploymentMode = "development" => \A r \in Reqs : Arrived(r) /\ IsDevLogin(r) /\ Parses(r) => pc[r] = "RESPONDED" /\ calls[r] = 0 /\ out[r] = NoCall /\ IF Credentials(r) = <<"devuser", "devpassword">> THEN res[r].status = 200 /\ LoginGranted(r) ELSE LoginDenied(r)

C8_Witness == deploymentMode = "development" /\ \E r \in Reqs : IsDevLogin(r) /\ Credentials(r) = <<"devuser", "devpassword">> /\ res[r].status = 200 /\ LoginGranted(r) /\ calls[r] = 0

\* C9: in a deployment not marked as a development environment the
\* dev-login handler is not registered: POST /api/auth/dev-login, with any
\* body, never returns authenticated = true or a token, and is answered 404.
C9_Original == deploymentMode # "development" => \A r \in Reqs : Arrived(r) /\ IsDevLogin(r) => pc[r] = "RESPONDED" /\ ~LoginGranted(r) /\ res[r].status = 404

NoDot(path) == ~Includes(path, <<".">>)

IndexDocument(r) == pc[r] = "RESPONDED" /\ res[r].status = 200 /\ res[r].body = FilePayload(pIndex)

IsSynthesizedGet(r) == req[r].method \in {"GET", "HEAD"} /\ Path(r) \in {pHealth, pDebug, pTest}

SpaRequest(r) == Arrived(r) /\ req[r].method # "OPTIONS" /\ Parses(r) /\ ~UnderMount(Path(r)) /\ NoDot(Path(r)) /\ ~IsSynthesizedGet(r) /\ ~NamesPublicEntry(r) /\ pIndex \in publicDir.files

HealthAnswer(r) == pc[r] = "RESPONDED" /\ res[r].status = 200 /\ SentText(r, <<"OK">>) /\ ran[r] = {"health"} /\ calls[r] = 0 /\ out[r] = NoCall

PolicyValue(h) == CASE h = "content-security-policy" -> CspValue [] h = "x-content-type-options" -> "nosniff" [] h = "x-frame-options" -> "DENY" [] h = "x-xss-protection" -> "1; mode=block" [] h = "access-control-allow-origin" -> "*"

PolicyHeaders == {"content-security-policy", "x-content-type-options", "x-frame-options", "x-xss-protection", "access-control-allow-origin"}

\* C12: every response sent, whichever branch produced it, carries
\* Content-Security-Policy, X-Content-Type-Options: nosniff, X-Frame-Options:
\* DENY, X-XSS-Protection: 1; mode=block and Access-Control-Allow-Origin: *
\* with the proxy's values, also when the backend's response has its own
\* values for those names.
C12_Original == \A r \in Reqs : res[r].sent => \A h \in PolicyHeaders : res[r].hdr[h] = PolicyValue(h)

HasBody(r) == req[r].body.enc # "none"

\* What an inbound body carries: the object a JSON or form-encoded body
\* denotes, and otherwise the body as it was sent.
BodyContent(body) == IF body.enc \in {"json", "form"} THEN [username |-> body.username, password |-> body.password] ELSE body

\* C14: the outbound call of a forwarded request uses the inbound method and
\* carries the inbound body with its content unchanged, whether the body is
\* JSON or of any other declared content type.
C14_Original == \A r \in Reqs : Forwarded(r) /\ HasBody(r) => out[r].method = req[r].method /\ out[r].data = BodyContent(req[r].body) /\ out[r].headers["content-type"] = ContentTypeOf(req[r].body)

NoneInFlight == \A r \in Reqs : ~InFlight(r)

Called == sched.phase \in {"returned", "threw"}

\* The mechanism the priority rule selects: the context when defined, else
\* the environment variable, else Mechanism B.
SelectedByPriority == IF sched.context # Absent THEN (IF sched.context \in {"boolean:true", "string:true"} THEN "A" ELSE "B") ELSE IF sched.env = "true" THEN "A" ELSE "B"

HasRule == sched.result.rule # NoConstruct

HasSchedule == sched.result.schedule # NoConstruct

UnderA == Called /\ sched.mechanism = "A"

Expression == sched.config.scheduleExpression

AcceptedUnits == {"minute", "minutes", "hour", "hours", "day", "days"}

\* The amount is written as a positive integer: digits only, not zero.
IsPositiveInteger(amount) == amount # <<>> /\ (\A i \in 1..Len(amount) : IsDigit(amount[i])) /\ DigitsValue(amount, 0) > 0

MinutesPerUnit(u) == IF u \in {"minute", "minutes"} THEN 1 ELSE IF u \in {"hour", "hours"} THEN 60 ELSE 1440

\* The period of a created rate schedule, in minutes.
PeriodMinutes(schedule) == schedule.value * MinutesPerUnit(schedule.unit)

\* C17: under Mechanism A, 'rate(N unit)' is accepted exactly when unit is one
\* of minute(s), hour(s), day(s) and N is a positive integer, and then gives a
\* trigger of period N units; for any other unit or amount (non-numeric,
\* zero, negative, fractional, trailing garbage) createScheduler fails.
C17_Original == UnderA => \A a \in Amounts, u \in Units : Expression = RateExpr(a, u) => IF u \in AcceptedUnits /\ IsPositiveInteger(a) THEN sched.phase = "returned" /\ ~sched.result.rule.schedule.nan /\ PeriodMinutes(sched.result.rule.schedule) = DigitsValue(a, 0) * MinutesPerUnit(u) ELSE sched.phase = "threw"

IsCronString == StartsWith(Expression, <<"cron(">>)

IsRateString == StartsWith(Expression, <<"rate(">>)

Threw(kind) == sched.phase = "threw" /\ sched.result.error.kind = kind

\* C18: under Mechanism A the only cron string accepted is the literal
\* 'cron(25 1 4 * ? *)', turned into a 30-day rate; every other string
\* starting with 'cron(' fails with an error naming the expression and
\* pointing to rate expressions or the other architecture; a string starting
\* with neither 'rate(' nor 'cron(' fails as an unsupported expression.
C18_Original == UnderA => /\ (Expression = CronExpr(MonthlyCron) => sched.phase = "returned" /\ sched.result.rule.schedule = [nan |-> FALSE, value |-> 30, unit |-> "day"])
                          /\ (IsCronString /\ Expression # CronExpr(MonthlyCron) => sched.phase = "threw" /\ sched.result.error.expression = Expression /\ sched.result.error.guidance)
                          /\ (~IsCronString /\ ~IsRateString => Threw("Unsupported schedule expression") /\ sched.result.error.expression = Expression)

Returned == sched.phase = "returned"

\* The retry count of the trigger the call created.
RetryCreated == IF sched.mechanism = "A" THEN sched.result.rule.retryAttempts ELSE sched.result.schedule.maximumRetryAttempts

\* The same config under the other mechanism.
UnderOther == IF sched.mechanism = "A" THEN CreateEventBridgeScheduler(sched.config) ELSE CreateCloudWatchEventsRule(sched.config, TRUE)

RetryUnderOther == IF sched.mechanism = "A" THEN UnderOther.schedule.maximumRetryAttempts ELSE UnderOther.rule.retryAttempts

\* C19: for any config the retry count of the trigger created under Mechanism
\* A equals the one created under Mechanism B, whether retryAttempts is given
\* (0 included) or omitted.
C19_Original == Returned /\ ~UnderOther.threw => RetryCreated = RetryUnderOther

HasInput == sched.config.input \notin {Absent, ""}

\* The input payload the created trigger passes to the job.
InputCreated == IF sched.mechanism = "A" THEN sched.result.rule.input ELSE sched.result.schedule.input

\* C20: when config.input is provided, the job is invoked with that payload
\* under Mechanism A as well as under Mechanism B.
C20_Original == Returned /\ HasInput => InputCreated = sched.config.input


----------------------------------------------------------------------------
(* The edge listeners.                                                      *)

Built == edge.phase = "built"

HasCertificate == Truthy(edge.certificateArn)

ForwardsTo(l, tg) == Len(l.defaultActions) = 1 /\ l.defaultActions[1].type = "forward" /\ l.defaultActions[1].targetGroups = {tg.id}

RedirectsToHttps(l) == l.defaultActions = <<[type |-> "redirect", targetGroups |-> {}, protocol |-> "HTTPS", port |-> "443", statusCode |-> "HTTP_301"]>>

IsHttps443(l) == l.protocol = "HTTPS" /\ l.port = 443

IsHttp80(l) == l.protocol = "HTTP" /\ l.port = 80

\* A listener's traffic ends at tg: it forwards there, or it redirects to a
\* listener of this load balancer that forwards there.
EndsAt(l, tg) == \/ ForwardsTo(l, tg) \/ /\ RedirectsToHttps(l) /\ \E m \in edge.listeners : IsHttps443(m) /\ ForwardsTo(m, tg)

----------------------------------------------------------------------------
(* The authority of the outbound URL.                                       *)

\* The host component of an https URL: what stands between the scheme and
\* the first "/" after it.
HostOf(url) == DomainPart(Slice(url, 2))

\* C22: a request that reached the forward step was either answered with the
\* missing-endpoint 500 without an outbound call, or its outbound call went
\* to a URL whose host component is not empty.
C22_Original == \A r \in Reqs : ReachedForwardStep(r) => \/ MissingEndpointAnswer(r) \/ (Forwarded(r) /\ HostOf(out[r].url) # <<>>)

----------------------------------------------------------------------------
(* Origin and referer of the outbound request.                              *)

Inbound(r, h) == req[r].headers[h]

Outbound(r, h) == out[r].headers[h]

OwnAuthority(r) == "https://" \o Inbound(r, "host")

KeptOrOwnAuthority(r, h) == IF Inbound(r, h) # Absent THEN Inbound(r, h) ELSE OwnAuthority(r)

\* The request URL after the /api prefix, query string included, contains
\* /auth/ or /token/.
AuthUrl(r) == LET rest == Slice(req[r].url, Len(ApiPrefix) + 1) IN Includes(rest, <<"/", "auth", "/">>) \/ Includes(rest, <<"/", "token", "/">>)

\* The statement as first written: origin and referer are each forwarded
\* unchanged when present and set to https://<Host> when absent.
C23_Original == \A r \in Reqs : Forwarded(r) => \A h \in {"origin", "referer"} : Outbound(r, h) = KeptOrOwnAuthority(r, h)

\* C23: the outbound origin is the inbound origin when present and
\* https://<Host> otherwise, on every forwarded request; the outbound referer
\* is that same value on an authentication URL, whatever referer came in,
\* and the inbound referer (absent stays absent) on any other URL.
C23_OriginReferer == \A r \in Reqs : Forwarded(r) => /\ Outbound(r, "origin") = KeptOrOwnAuthority(r, "origin") /\ Outbound(r, "referer") = IF AuthUrl(r) THEN KeptOrOwnAuthority(r, "origin") ELSE Inbound(r, "referer")

C23_Witness == \E r \in Reqs : Forwarded(r) /\ Path(r) = pAuthScript /\ Inbound(r, "referer") = "https://app.example/page" /\ Inbound(r, "origin") = Absent /\ Outbound(r, "referer") = "https://alb.example"

----------------------------------------------------------------------------
(* The sec-fetch-* headers of the outbound request.                         *)

\* The path of the request, without its query string, contains /auth/ or
\* /token/.
AuthPathOnly(r) == Includes(Path(r), <<"/", "auth", "/">>) \/ Includes(Path(r), <<"/", "token", "/">>)

TrioWritten(r) == Outbound(r, "sec-fetch-site") = "cross-site" /\ Outbound(r, "sec-fetch-mode") = "cors" /\ Outbound(r, "sec-fetch-dest") = "empty"

\* C24: on a forwarded request the sec-fetch trio is written exactly when the
\* path matches the authentication pattern; when the path does not match,
\* sec-fetch-site and accept leave as they came in and no sec-fetch-mode or
\* sec-fetch-dest is added, whatever the query string.
C24_Original == \A r \in Reqs : Forwarded(r) => ((TrioWritten(r) <=> AuthPathOnly(r)) /\ (~AuthPathOnly(r) => (Outbound(r, "sec-fetch-site") = Inbound(r, "sec-fetch-site") /\ Outbound(r, "sec-fetch-mode") = Absent /\ Outbound(r, "sec-fetch-dest") = Absent /\ Outbound(r, "accept") = Inbound(r, "accept"))))

----------------------------------------------------------------------------
(* Backend headers that cannot be set.                                      *)

Unsettable(b, h) == b.headers[h] # Absent /\ SetHeaderThrows(b.headers[h])

Settable(b, h) == b.headers[h] # Absent /\ ~SetHeaderThrows(b.headers[h])

\* The backend answered r, at least one header of the answer cannot be set,
\* and its Content-Type is one the response can be sent with.
AnsweredWithUnsettable(r) == Answered(r) /\ (\E h \in BackendHeaderNames : Unsettable(answer[r], h)) /\ answer[r].headers["content-type"] # BadMediaType

----------------------------------------------------------------------------
(* Every outbound call ends in a response.                                  *)

\* C26: a request that is FORWARDED is eventually RESPONDED.
C26_Original == \A r \in Reqs : pc[r] = "FORWARDED" ~> pc[r] = "RESPONDED"

----------------------------------------------------------------------------
(* Synthesized endpoints and the backend.                                   *)

SynthesizedGetPaths == {pHealth, pDebug, pApiTest, pTest, pAuthHelper, pPortalLoad, pSearchParam}

\* The request matches an entry of the synthesized-endpoint table.
MatchesEntry(r) == (req[r].method = "GET" /\ Path(r) \in SynthesizedGetPaths) \/ (req[r].method = "POST" /\ Path(r) = pDevLogin)

NoOutboundCall(r) == pc[r] = "RESPONDED" /\ res[r].sent /\ calls[r] = 0 /\ out[r] = NoCall /\ answer[r] = NoAnswer

\* The response says nothing about the configured backend origin.
EndpointFree(r) == "apiEndpoint" \notin DOMAIN res[r].body

OnlyUnmatchedApiForwarded == \A r \in Reqs : Forwarded(r) => (UnderMount(Path(r)) /\ ~MatchesEntry(r))

\* The statement as first written: a request matching an entry is answered
\* without an outbound call and with a response that does not vary with the
\* backend origin.
C27_Original == (\A r \in Reqs : Arrived(r) /\ MatchesEntry(r) => (NoOutboundCall(r) /\ EndpointFree(r))) /\ OnlyUnmatchedApiForwarded

\* C27: a request matching an entry is answered by the proxy without an
\* outbound call and without waiting for the backend; only the answers of
\* GET /debug and GET /test carry the configured API_ENDPOINT value; and a
\* request is forwarded only if it is under /api and matches no entry.
C27_Synthesized == (\A r \in Reqs : Arrived(r) /\ MatchesEntry(r) => (NoOutboundCall(r) /\ (EndpointFree(r) \/ (Path(r) \in {pDebug, pTest} /\ res[r].body.apiEndpoint = apiEndpoint)))) /\ OnlyUnmatchedApiForwarded

C27_Witness == \E r \in Reqs : MatchesEntry(r) /\ Path(r) = pDebug /\ NoOutboundCall(r) /\ ~EndpointFree(r) /\ apiEndpoint = <<"d", "/", "prod">> /\ res[r].body.apiEndpoint = <<"d", "/", "prod">>

----------------------------------------------------------------------------
(* Static files come first.                                                 *)

NamesPublicFile(r) == req[r].method \in {"GET", "HEAD"} /\ Path(r) \in publicDir.files

\* The file at the request path was served, by the static-file step alone and
\* without an outbound call.
FileServed(r) == pc[r] = "RESPONDED" /\ res[r].sent /\ res[r].status = 200 /\ res[r].body = FilePayload(Path(r)) /\ ran[r] = {"static"} /\ calls[r] = 0 /\ out[r] = NoCall

\* The statement as first written: every GET or HEAD request whose path names
\* a file of the public directory is answered with that file.
C28_Original == \A r \in Reqs : Arrived(r) /\ NamesPublicFile(r) => FileServed(r)

\* C28: a GET or HEAD request whose body, if it has one, parses and whose
\* path names a file of the public directory is answered with that file by
\* the static-file step; no later handler runs and no outbound call is made.
C28_StaticFirst == \A r \in Reqs : Arrived(r) /\ NamesPublicFile(r) /\ Parses(r) => FileServed(r)

C28_Witness == \E r \in Reqs : Path(r) = pApiX /\ apiEndpoint # <<>> /\ NamesPublicFile(r) /\ Parses(r) /\ FileServed(r)

----------------------------------------------------------------------------
(* The repository's own schedules.                                          *)

FromCallSite == Called /\ sched.config \in CallSiteConfigs

\* The trigger Mechanism A creates for each call-site expression.
CallSiteRate == CASE Expression = RateExpr(<<"1">>, "hour") -> [nan |-> FALSE, value |-> 1, unit |-> "hour"] [] Expression = RateExpr(<<"6">>, "hour") -> [nan |-> FALSE, value |-> 6, unit |-> "hour"] [] Expression = RateExpr(<<"1">>, "day") -> [nan |-> FALSE, value |-> 1, unit |-> "day"] [] Expression = CronExpr(MonthlyCron) -> [nan |-> FALSE, value |-> 30, unit |-> "day"]

\* C29: a createScheduler call with one of the four call-site configurations
\* returns without a configuration error under either mechanism and has
\* created the trigger of the selected mechanism: a rule with the rate the
\* expression stands for under Mechanism A, a schedule carrying the
\* expression as written under Mechanism B.
C29_CallSites == FromCallSite => (Returned /\ ~sched.result.threw /\ IF sched.mechanism = "A" THEN (HasRule /\ ~HasSchedule /\ sched.result.rule.schedule = CallSiteRate) ELSE (HasSchedule /\ ~HasRule /\ sched.result.schedule.scheduleExpression = Expression))

C29_Witness == FromCallSite /\ Returned /\ sched.mechanism = "A" /\ Expression = RateExpr(<<"6">>, "hour") /\ HasRule /\ sched.result.rule.schedule.value = 6

----------------------------------------------------------------------------
(* Faults while handling a request.                                         *)

\* The request body failed to parse.
ParseFault(r) == Arrived(r) /\ ~Parses(r)

\* Sending the backend's answer threw (its Content-Type is not a media type).
SendFault(r) == Answered(r) /\ answer[r].headers["content-type"] = BadMediaType

\* Issuing the outbound call threw before any request was made.
SetupFault(r) == answer[r] = SetupFailure

Faulted(r) == ParseFault(r) \/ SendFault(r) \/ SetupFault(r)

ErrorAnswer(r) == pc[r] = "RESPONDED" /\ res[r].sent /\ res[r].status = 500 /\ res[r].body.tag = "error" /\ res[r].body.fields = {"message", "error", "stack"}

\* C30: a request during whose handling a fault was raised is answered 500
\* with message, error and stack fields; the server keeps listening, and no
\* other request is left unanswered because of it.
C30_Original == \A r \in Reqs : Faulted(r) => (ErrorAnswer(r) /\ server = "listening" /\ \A o \in Reqs \ {r} : ~Faulted(o) => pc[o] # "HUNG")

====
